---- MODULE Spec2Model ----
(***************************************************************************)
(* The URL shortener of Frontend_test_submission/src/App.jsx.              *)
(*                                                                         *)
(* Every browser tab runs its own instance of App.  All tabs share one     *)
(* localStorage record (STORAGE_KEY).  A tab is either closed, showing the *)
(* submission view (MainApp, route "/"), showing the redirect view         *)
(* (RedirectShortUrl, route "/:shortcode"), or gone to an external URL.    *)
(* Each event handler, effect and timer callback runs to completion, so    *)
(* each is one action; a page load renders and runs its effects in one     *)
(* action.                                                                 *)
(*                                                                         *)
(* Spec is one tab, SpecTabs two tabs sharing the store, SpecForm the      *)
(* submission view with every form content, submitted once, SpecLoad one   *)
(* tab on a store that holds any kind of item, SpecGen one tab with the    *)
(* loop of generateShortCode as steps of its own.                          *)
(*                                                                         *)
(* Text is modelled as sequences of one-character strings wherever the     *)
(* code looks inside it (shortcodes, validity); URLs are opaque strings.   *)
(* Times are milliseconds since the epoch.  Row indices are 1-based here   *)
(* and 0-based in the code.                                                *)
(***************************************************************************)
EXTENDS Integers, Sequences, FiniteSets, TLC

VARIABLES
  storage,         \* the localStorage item under STORAGE_KEY
  view,            \* per tab: "closed", "main", "redirect", "external", "hung",
                   \*          "crashed" (a render threw, React unmounted App),
                   \*          "generating" (inside generateShortCode's loop)
  listKind,        \* per tab: "array", or what else getStoredUrls returned to
                   \*          the useState calls of the page
  appUrls,         \* per tab: App's shortenedUrls state (line 292)
  mainUrls,        \* per tab: MainApp's shortenedUrls state (line 87)
  inputs,          \* per tab: MainApp's inputs state (line 84)
  errors,          \* per tab: MainApp's errors state (line 88)
  successMessage,  \* per tab: number of URLs the success alert reports, 0 = ''
  shortcode,       \* per tab: the route parameter of the redirect view
  href,            \* per tab: the external URL window.location.href was set to
  timers,          \* per tab: ids of the pending setTimeout callbacks
  timerSeq,        \* per tab: the id of the last timer this page created
  navCount,        \* per tab: navigate('/') calls made on this page
  events           \* per tab: 'storage' events queued for this tab

vars == <<storage, view, listKind, appUrls, mainUrls, inputs, errors, successMessage,
          shortcode, href, timers, timerSeq, navCount, events>>

----------------------------------------------------------------------------
(* Bounds of the model *)

\* rows of the form (the code has Array(5))
NumInputs == 2
\* entries a submission may bring the in-memory list to
MaxStore == 2
\* clicks an entry may collect
MaxClicks == 1
\* timers one page may create
MaxTimers == 2
\* 'storage' events that may be queued for one tab
MaxEvents == 1

(* Program constants *)
DEFAULT_VALIDITY == 30
MsPerMinute == 60000
CodeFrom == 2
CodeTo == 8
MinCodeLen == 3
MaxCodeLen == 10

Tabs == DOMAIN view

----------------------------------------------------------------------------
(* Text *)

Digits == {"0", "1", "2", "3", "4", "5", "6", "7", "8", "9"}
Lower == {"a", "b", "i", "x"}
Upper == {"A", "B"}
Alnum == Digits \cup Lower \cup Upper

EmptyText == <<>>
Origin == <<"o">>

Min(a, b) == IF a < b THEN a ELSE b

\* String.prototype.substring(from, to) with 0 <= from <= to (0-based, to excluded)
substring(s, from, to) ==
  LET lo == Min(from, Len(s))
      hi == Min(to, Len(s))
  IN  SubSeq(s, lo + 1, hi)

DigitValue(c) ==
  CASE c = "0" -> 0 [] c = "1" -> 1 [] c = "2" -> 2 [] c = "3" -> 3
    [] c = "4" -> 4 [] c = "5" -> 5 [] c = "6" -> 6 [] c = "7" -> 7
    [] c = "8" -> 8 [] c = "9" -> 9

\* /^\d+$/.test(s)
IsDigits(s) == Len(s) > 0 /\ \A i \in 1..Len(s) : s[i] \in Digits

\* the value of a string of decimal digits
RECURSIVE decimalValue(_)
decimalValue(s) ==
  IF Len(s) = 0 THEN 0
  ELSE 10 * decimalValue(SubSeq(s, 1, Len(s) - 1)) + DigitValue(s[Len(s)])

\* stands for NaN; parseInt never returns a negative number for these texts
NaN == 0 - 1

\* parseInt(s) of a string that is all digits or has no leading digit
parseInt(s) == IF IsDigits(s) THEN decimalValue(s) ELSE NaN

----------------------------------------------------------------------------
(* The persistent store *)

NoItem == [tag |-> "missing", val |-> <<>>]
ArrayItem(urls) == [tag |-> "array", val |-> urls]

\* An item this application did not write.  Its tag tells what JSON.parse
\* makes of the text: "unparseable" (a SyntaxError, as for '{oops'), a falsy
\* value ('null', '0', '""', 'false') or a truthy value that is no array
\* ('{"a":1}', '5', '"abc"', 'true').
FalsyTags == {"null", "zero", "emptyString", "false"}
TruthyTags == {"object", "number", "string", "true"}
ForeignItem(tag) == [tag |-> tag, val |-> <<>>]

\* What getStoredUrls returns for an item: JSON.parse(null) is null, a falsy
\* value gives the [] of `|| []`, a SyntaxError the [] of the catch, and a
\* truthy value is returned as it is.
loadedKind(item) == IF item.tag \in TruthyTags THEN item.tag ELSE "array"

getStoredKind == loadedKind(storage)

\* JSON.parse(localStorage.getItem(STORAGE_KEY)) || [], when it is an array
\* (getStoredKind tells when it is not)
getStoredUrls == IF storage.tag = "array" THEN storage.val ELSE <<>>

----------------------------------------------------------------------------
(* What the user may type and what Math.random() may return *)

GoodUrl == "https://a.com"
BadUrl == "not a url"
UrlValues == {"", GoodUrl, BadUrl}
ValidityValues == {EmptyText, <<"2">>, <<"0">>, <<"x">>}

CodeA == <<"a", "a", "a", "a", "a", "a">>
CodeB == <<"b", "b", "b", "b", "b", "b">>
ShortCodeAb == <<"a", "b">>
ShortcodeValues == {EmptyText, CodeA, ShortCodeAb}

FieldValues(field) ==
  CASE field = "url" -> UrlValues
    [] field = "validity" -> ValidityValues
    [] field = "shortcode" -> ShortcodeValues

Fields == {"url", "validity", "shortcode"}

\* A value of Math.random() is given by the base-36 digits of its fraction:
\* <<>> is 0, <<"i">> is 0.5, the long ones have more than six digits.
RandomDraws ==
  { <<>>, <<"i">>,
    <<"a", "a", "a", "a", "a", "a", "a", "a">>,
    <<"b", "b", "b", "b", "b", "b", "b", "b">> }

\* new Date() may return any of these (the wall clock is not monotonic)
Times == {1000, 61000}

\* the path segments a visitor may open
VisitCodes == {CodeA, CodeB, <<"i">>, <<"x", "x", "x">>}

----------------------------------------------------------------------------
(* MainApp: the form, the Validator and the Code Generator *)

BlankInput == [url |-> "", validity |-> EmptyText, shortcode |-> EmptyText]

\* Array(5).fill({ url: '', validity: '', shortcode: '' })
BlankInputs == [i \in 1..NumInputs |-> BlankInput]

hasShortcode(urls, code) == \E i \in 1..Len(urls) : urls[i].shortcode = code

\* faulty variant: only the stored entries are looked at, not the form
isShortcodeUniqueInStore(t, code, currentIdx) ==
  ~hasShortcode(mainUrls[t], code)

\* isShortcodeUnique(code, currentIdx = -1); currentIdx 0 excludes no row
isShortcodeUnique(t, code, currentIdx) ==
  /\ ~hasShortcode(mainUrls[t], code)
  /\ ~\E idx \in 1..NumInputs :
        idx # currentIdx /\ inputs[t][idx].shortcode = code

\* new URL(url) succeeds: the text is an absolute URL
isValidUrl(url) == url \in {GoodUrl}

\* /^[a-zA-Z0-9]{3,10}$/.test(code)
isValidShortcode(code) ==
  /\ Len(code) >= MinCodeLen
  /\ Len(code) <= MaxCodeLen
  /\ \A i \in 1..Len(code) : code[i] \in Alnum

ErrUrl == "Invalid URL"
ErrValidity == "Must be a positive number"
ErrFormat == "3-10 alphanumeric chars"
ErrTaken == "This code is already taken"

Err(field, idx, msg) == [field |-> field, idx |-> idx, msg |-> msg]

\* faulty variant: validity and shortcode are checked in rows without a URL
rowErrorsAnyRow(t, idx) ==
  LET input == inputs[t][idx] IN
    (IF input.url # "" /\ ~isValidUrl(input.url)
     THEN {Err("url", idx, ErrUrl)} ELSE {})
    \cup
    (IF input.validity # EmptyText
        /\ (~IsDigits(input.validity) \/ parseInt(input.validity) <= 0)
     THEN {Err("validity", idx, ErrValidity)} ELSE {})
    \cup
    (IF input.shortcode # EmptyText /\ ~isValidShortcode(input.shortcode)
     THEN {Err("shortcode", idx, ErrFormat)} ELSE {})

\* the errors validateInputs finds in row idx
rowErrors(t, idx) ==
  LET input == inputs[t][idx] IN
  IF input.url = "" THEN {}
  ELSE
    (IF ~isValidUrl(input.url) THEN {Err("url", idx, ErrUrl)} ELSE {})
    \cup
    (IF input.validity # EmptyText
        /\ (~IsDigits(input.validity) \/ parseInt(input.validity) <= 0)
     THEN {Err("validity", idx, ErrValidity)} ELSE {})
    \cup
    (IF input.shortcode # EmptyText
     THEN IF ~isValidShortcode(input.shortcode)
          THEN {Err("shortcode", idx, ErrFormat)}
          ELSE IF ~isShortcodeUnique(t, input.shortcode, idx)
               THEN {Err("shortcode", idx, ErrTaken)}
               ELSE {}
     ELSE {})

\* newErrors of validateInputs
validateInputs(t) == UNION { rowErrors(t, idx) : idx \in 1..NumInputs }

\* faulty variant: handleShorten goes on whatever validateInputs found
validationPassedAlways(newErrors) == TRUE

\* Object.keys(newErrors).length === 0, the result of validateInputs
validationPassed(newErrors) == newErrors = {}

\* Math.random().toString(36): "0" for 0, else "0." and the fraction's digits
toString36(draw) ==
  IF draw = <<>> THEN <<"0">> ELSE <<"0", ".">> \o draw

\* Math.random().toString(36).substring(2, 8)
candidateCode(draw) == substring(toString36(draw), CodeFrom, CodeTo)

\* generateShortCode returns the first candidate that isShortcodeUnique
\* accepts; draw is the value of Math.random() in the loop's last round.
generateShortCode(t, draw) == candidateCode(draw)

\* faulty variant: a candidate shorter than 6 characters is drawn again
generatorAcceptsFullLength(t, draw) ==
  /\ Len(candidateCode(draw)) = CodeTo - CodeFrom
  /\ isShortcodeUnique(t, candidateCode(draw), 0)

generatorAccepts(t, draw) == isShortcodeUnique(t, candidateCode(draw), 0)

\* the generator's loop can end: some value of Math.random() is accepted
generatorCanReturn(t) == \E draw \in RandomDraws : generatorAccepts(t, draw)

\* inputs.filter(input => input.url), as the row indices kept
RECURSIVE filledRows(_, _)
filledRows(t, idx) ==
  IF idx > NumInputs THEN <<>>
  ELSE (IF inputs[t][idx].url # "" THEN <<idx>> ELSE <<>>)
       \o filledRows(t, idx + 1)

\* faulty variant: the validity typed in the row is ignored
newEntryDefaultValidity(t, idx, now, draw) ==
  LET input == inputs[t][idx]
      code == IF input.shortcode # EmptyText THEN input.shortcode
              ELSE generateShortCode(t, draw)
  IN  [ originalUrl |-> input.url,
        shortcode |-> code,
        shortUrl |-> Origin \o <<"/">> \o code,
        createdAt |-> now,
        expiresAt |-> now + DEFAULT_VALIDITY * MsPerMinute,
        clicks |-> 0 ]

\* the entry handleShorten builds for one row
newEntry(t, idx, now, draw) ==
  LET input == inputs[t][idx]
      code == IF input.shortcode # EmptyText THEN input.shortcode
              ELSE generateShortCode(t, draw)
      validity == IF input.validity # EmptyText THEN parseInt(input.validity)
                  ELSE DEFAULT_VALIDITY
  IN  [ originalUrl |-> input.url,
        shortcode |-> code,
        shortUrl |-> Origin \o <<"/">> \o code,
        createdAt |-> now,
        expiresAt |-> now + validity * MsPerMinute,
        clicks |-> 0 ]

\* newShortened of handleShorten; draws[idx] is the accepted Math.random()
\* value of the generateShortCode call made for row idx
newShortened(t, now, draws) ==
  LET rows == filledRows(t, 1)
  IN  [k \in 1..Len(rows) |-> newEntry(t, rows[k], now, draws[rows[k]])]

\* faulty variant: handleShorten reads the store again before it appends
baseUrlsFresh(t) == getStoredUrls

\* the list handleShorten extends: MainApp's shortenedUrls state
baseUrls(t) == mainUrls[t]

\* faulty variant: the new entries are put in front
prependUrls(old, new) == new \o old

\* [...shortenedUrls, ...newShortened]
appendUrls(old, new) == old \o new

\* the rows whose shortcode validateInputs passes to isShortcodeUnique
checkedRows(t) ==
  { idx \in 1..NumInputs :
      /\ inputs[t][idx].url # ""
      /\ inputs[t][idx].shortcode # EmptyText
      /\ isValidShortcode(inputs[t][idx].shortcode) }

\* the rows for which handleShorten calls generateShortCode
generatedRows(t) ==
  { idx \in 1..NumInputs :
      inputs[t][idx].url # "" /\ inputs[t][idx].shortcode = EmptyText }

----------------------------------------------------------------------------
(* Writing the store, and the 'storage' events it sends to the other tabs *)

Loaded(u) == view[u] \in {"main", "redirect"}

\* every other loaded tab can take one more 'storage' event
othersCanBeNotified(t) ==
  \A u \in Tabs \ {t} : Loaded(u) => events[u] < MaxEvents

\* the event queues after tab t wrote the store and handled `handled` events
eventsAfterWrite(t, handled) ==
  [u \in Tabs |->
     IF u = t THEN events[u] - handled
     ELSE IF Loaded(u) THEN events[u] + 1 ELSE events[u]]

\* localStorage.setItem(STORAGE_KEY, JSON.stringify(urls))
setStoredUrls(urls) == storage' = ArrayItem(urls)

----------------------------------------------------------------------------
(* MainApp's handlers *)

\* handleInputChange(index, field, value)
handleInputChange(t, idx, field, value) ==
  /\ view[t] = "main"
  /\ inputs' = [inputs EXCEPT ![t][idx][field] = value]
  /\ UNCHANGED <<storage, view, listKind, appUrls, mainUrls, errors, successMessage,
                 shortcode, href, timers, timerSeq, navCount, events>>

\* faulty variant: the list is written back also when nothing was created
hasNewEntriesAlways(new) == TRUE

\* newShortened.length > 0 (line 167)
hasNewEntries(new) == Len(new) > 0

\* handleShorten from line 150 on, validateInputs having found no error and
\* every generateShortCode call having returned: the entries are built and,
\* if there are any, list and store are replaced and the form is reset.
storeBatch(t, now, draws) ==
  /\ \A idx \in generatedRows(t) : generatorAccepts(t, draws[idx])
  /\ LET new == newShortened(t, now, draws)
         updatedUrls == appendUrls(baseUrls(t), new)
     IN
     IF hasNewEntries(new)
     THEN /\ Len(updatedUrls) <= MaxStore
          /\ othersCanBeNotified(t)
          /\ mainUrls' = [mainUrls EXCEPT ![t] = updatedUrls]
          /\ setStoredUrls(updatedUrls)
          /\ events' = eventsAfterWrite(t, 0)
          /\ inputs' = [inputs EXCEPT ![t] = BlankInputs]
          /\ errors' = [errors EXCEPT ![t] = {}]
          /\ successMessage' = [successMessage EXCEPT ![t] = Len(new)]
          /\ UNCHANGED <<appUrls, shortcode, href, timers, timerSeq,
                         navCount>>
     ELSE \* no row has a URL: only validateInputs' setErrors({})
          /\ errors' = [errors EXCEPT ![t] = {}]
          /\ UNCHANGED <<storage, appUrls, mainUrls, inputs, successMessage,
                         shortcode, href, timers, timerSeq, navCount, events>>

\* handleShorten, the onClick of "Shorten URLs".  now is new Date(); draws
\* gives, for each row, the value of Math.random() that ended the loop of
\* the generateShortCode call made for it.
handleShorten(t, now, draws) ==
  /\ view[t] = "main"
  /\ UNCHANGED listKind
  /\ IF listKind[t] # "array" /\ checkedRows(t) # {}
     THEN \* shortenedUrls.some is not a function: validateInputs throws
          \* before its setErrors and the handler ends
          UNCHANGED <<storage, view, appUrls, mainUrls, inputs, errors,
                      successMessage, shortcode, href, timers, timerSeq,
                      navCount, events>>
     ELSE
     LET newErrors == validateInputs(t) IN
     IF ~validationPassed(newErrors)
     THEN \* validation failed: setErrors(newErrors), setSuccessMessage('')
          /\ errors' = [errors EXCEPT ![t] = newErrors]
          /\ successMessage' = [successMessage EXCEPT ![t] = 0]
          /\ UNCHANGED <<storage, view, appUrls, mainUrls, inputs, shortcode,
                         href, timers, timerSeq, navCount, events>>
     ELSE IF listKind[t] # "array"
     THEN \* validateInputs' setErrors({}); then generateShortCode throws as
          \* above, or no row has a URL
          /\ errors' = [errors EXCEPT ![t] = {}]
          /\ UNCHANGED <<storage, view, appUrls, mainUrls, inputs,
                         successMessage, shortcode, href, timers, timerSeq,
                         navCount, events>>
     ELSE IF generatedRows(t) # {} /\ ~generatorCanReturn(t)
     THEN \* the do-while of generateShortCode never ends: the tab hangs
          /\ view' = [view EXCEPT ![t] = "hung"]
          /\ UNCHANGED <<storage, appUrls, mainUrls, inputs, errors,
                         successMessage, shortcode, href, timers, timerSeq,
                         navCount, events>>
     ELSE /\ UNCHANGED view
          /\ storeBatch(t, now, draws)

\* handleShorten taken in two steps, to look at the do-while loop of
\* generateShortCode (lines 136-139).  handleShortenBegin: validateInputs
\* found no error and the first generateShortCode call is entered; while
\* the loop runs the page renders nothing and handles no event.  A round
\* whose candidate isShortcodeUnique rejects changes nothing.
handleShortenBegin(t) ==
  /\ view[t] = "main"
  /\ listKind[t] = "array"
  /\ validationPassed(validateInputs(t))
  /\ generatedRows(t) # {}
  /\ generatorCanReturn(t) =>
       Len(mainUrls[t]) + Len(filledRows(t, 1)) <= MaxStore
  /\ view' = [view EXCEPT ![t] = "generating"]
  /\ UNCHANGED <<storage, listKind, appUrls, mainUrls, inputs, errors,
                 successMessage, shortcode, href, timers, timerSeq, navCount,
                 events>>

\* handleShortenEnd: in every generateShortCode call a round drew a
\* candidate that isShortcodeUnique accepts (draws), and the handler runs
\* to its end.
handleShortenEnd(t, now, draws) ==
  /\ view[t] = "generating"
  /\ view' = [view EXCEPT ![t] = "main"]
  /\ UNCHANGED listKind
  /\ storeBatch(t, now, draws)

\* The values of Math.random() a handleShorten of tab t may draw, one
\* accepted value for each generateShortCode call; no call is made when
\* validateInputs finds an error.
drawsFor(t, values) ==
  IF validationPassed(validateInputs(t))
  THEN [generatedRows(t) -> values]
  ELSE [generatedRows(t) -> {EmptyText}]

----------------------------------------------------------------------------
(* RedirectShortUrl *)

NoHref == ""

\* shortenedUrls.map(url => url.shortcode === shortcode
\*                          ? { ...url, clicks: (url.clicks || 0) + 1 } : url)
countClick(urls, code) ==
  [i \in 1..Len(urls) |->
     IF urls[i].shortcode = code
     THEN [urls[i] EXCEPT !.clicks = @ + 1]
     ELSE urls[i]]

\* faulty variant: find(item => item.shortcode), which takes the first entry
findIndexLoose(urls, code) == IF Len(urls) > 0 THEN 1 ELSE 0

\* shortenedUrls.find(item => item.shortcode === shortcode): the index of
\* the first match, 0 for undefined
findIndex(urls, code) ==
  IF hasShortcode(urls, code)
  THEN CHOOSE i \in 1..Len(urls) :
         /\ urls[i].shortcode = code
         /\ \A j \in 1..(i - 1) : urls[j].shortcode # code
  ELSE 0

\* The effect of RedirectShortUrl (lines 42-56), run by tab t on the list
\* urls; it has no cleanup.  handled is the number of 'storage' events the
\* step consumes.  A found code is counted and the tab leaves for the
\* original URL, which ends the page and its timers; else a timer is set.
redirectEffect(t, urls, code, handled, oldTimers, oldSeq) ==
  IF findIndex(urls, code) # 0
  THEN /\ \A i \in 1..Len(urls) :
            urls[i].shortcode = code => urls[i].clicks < MaxClicks
       /\ othersCanBeNotified(t)
       /\ setStoredUrls(countClick(urls, code))
       /\ events' = eventsAfterWrite(t, handled)
       /\ href' = [href EXCEPT ![t] = urls[findIndex(urls, code)].originalUrl]
       /\ view' = [view EXCEPT ![t] = "external"]
       /\ timers' = [timers EXCEPT ![t] = {}]
       /\ timerSeq' = [timerSeq EXCEPT ![t] = oldSeq]
  ELSE /\ oldSeq < MaxTimers
       /\ timers' = [timers EXCEPT ![t] = oldTimers \cup {oldSeq + 1}]
       /\ timerSeq' = [timerSeq EXCEPT ![t] = oldSeq + 1]
       /\ view' = [view EXCEPT ![t] = "redirect"]
       /\ href' = [href EXCEPT ![t] = NoHref]
       /\ events' = [events EXCEPT ![t] = @ - handled]
       /\ UNCHANGED storage

----------------------------------------------------------------------------
(* Page loads, the storage listener and the timer *)

\* The view after MainApp's first render with useState(getStoredUrls()):
\* line 256 reads shortenedUrls.length, which is undefined on an object, a
\* number and true, and line 261 calls shortenedUrls.map, which a string
\* does not have.
mountMain == IF getStoredKind = "string" THEN "crashed" ELSE "main"

\* The tab loads "/": App and MainApp mount, each with
\* useState(getStoredUrls()).
OpenMain(t) ==
  /\ view[t] = "closed"
  /\ view' = [view EXCEPT ![t] = mountMain]
  /\ listKind' = [listKind EXCEPT ![t] = getStoredKind]
  /\ appUrls' = [appUrls EXCEPT ![t] = getStoredUrls]
  /\ mainUrls' = [mainUrls EXCEPT ![t] = getStoredUrls]
  /\ UNCHANGED <<storage, inputs, errors, successMessage, shortcode, href,
                 timers, timerSeq, navCount, events>>

\* The tab loads "/<code>": App mounts with useState(getStoredUrls()),
\* RedirectShortUrl mounts and its effect runs.
\* On anything but an array the render throws at shortenedUrls.some
\* (line 58) and the effect never runs.
OpenShort(t, code) ==
  /\ view[t] = "closed"
  /\ listKind' = [listKind EXCEPT ![t] = getStoredKind]
  /\ appUrls' = [appUrls EXCEPT ![t] = getStoredUrls]
  /\ shortcode' = [shortcode EXCEPT ![t] = code]
  /\ IF getStoredKind # "array"
     THEN /\ view' = [view EXCEPT ![t] = "crashed"]
          /\ UNCHANGED <<storage, href, timers, timerSeq, events>>
     ELSE redirectEffect(t, getStoredUrls, code, 0, {}, 0)
  /\ UNCHANGED <<mainUrls, inputs, errors, successMessage, navCount>>

\* onStorage (line 295): setShortenedUrls(getStoredUrls()) gives App a new
\* array, so a mounted RedirectShortUrl runs its effect again.  The event
\* follows a setStoredUrls of some tab, so the item is an array.
OnStorage(t) ==
  /\ events[t] > 0
  /\ Loaded(t)
  /\ UNCHANGED listKind
  /\ appUrls' = [appUrls EXCEPT ![t] = getStoredUrls]
  /\ IF view[t] = "redirect"
     THEN /\ redirectEffect(t, getStoredUrls, shortcode[t], 1,
                            timers[t], timerSeq[t])
          /\ UNCHANGED <<mainUrls, inputs, errors, successMessage, shortcode,
                         navCount>>
     ELSE /\ events' = [events EXCEPT ![t] = @ - 1]
          /\ UNCHANGED <<storage, view, mainUrls, inputs, errors,
                         successMessage, shortcode, href, timers, timerSeq,
                         navCount>>

\* The callback of setTimeout(() => navigate('/'), 3000) (line 54).  From the
\* redirect view the router unmounts RedirectShortUrl and mounts MainApp;
\* at "/" already, MainApp stays mounted with its state.
TimerFire(t, id) ==
  /\ Loaded(t)
  /\ id \in timers[t]
  /\ timers' = [timers EXCEPT ![t] = @ \ {id}]
  /\ navCount' = [navCount EXCEPT ![t] = @ + 1]
  /\ IF view[t] = "redirect"
     THEN /\ view' = [view EXCEPT ![t] = mountMain]
          /\ listKind' = [listKind EXCEPT ![t] = getStoredKind]
          /\ mainUrls' = [mainUrls EXCEPT ![t] = getStoredUrls]
          /\ shortcode' = [shortcode EXCEPT ![t] = EmptyText]
     ELSE UNCHANGED <<view, listKind, mainUrls, shortcode>>
  /\ UNCHANGED <<storage, appUrls, inputs, errors, successMessage, href,
                 timerSeq, events>>

\* The tab is closed or leaves the application: the page, its state, its
\* timers and its queued events are gone.
CloseTab(t) ==
  /\ view[t] # "closed"
  /\ view' = [view EXCEPT ![t] = "closed"]
  /\ listKind' = [listKind EXCEPT ![t] = "array"]
  /\ appUrls' = [appUrls EXCEPT ![t] = <<>>]
  /\ mainUrls' = [mainUrls EXCEPT ![t] = <<>>]
  /\ inputs' = [inputs EXCEPT ![t] = BlankInputs]
  /\ errors' = [errors EXCEPT ![t] = {}]
  /\ successMessage' = [successMessage EXCEPT ![t] = 0]
  /\ shortcode' = [shortcode EXCEPT ![t] = EmptyText]
  /\ href' = [href EXCEPT ![t] = NoHref]
  /\ timers' = [timers EXCEPT ![t] = {}]
  /\ timerSeq' = [timerSeq EXCEPT ![t] = 0]
  /\ navCount' = [navCount EXCEPT ![t] = 0]
  /\ events' = [events EXCEPT ![t] = 0]
  /\ UNCHANGED storage

----------------------------------------------------------------------------
(* Specifications *)

\* every tab of ids is closed
ClosedTabs(ids) ==
  /\ view = [t \in ids |-> "closed"]
  /\ listKind = [t \in ids |-> "array"]
  /\ appUrls = [t \in ids |-> <<>>]
  /\ mainUrls = [t \in ids |-> <<>>]
  /\ inputs = [t \in ids |-> BlankInputs]
  /\ errors = [t \in ids |-> {}]
  /\ successMessage = [t \in ids |-> 0]
  /\ shortcode = [t \in ids |-> EmptyText]
  /\ href = [t \in ids |-> NoHref]
  /\ timers = [t \in ids |-> {}]
  /\ timerSeq = [t \in ids |-> 0]
  /\ navCount = [t \in ids |-> 0]
  /\ events = [t \in ids |-> 0]

\* nothing is stored yet and every tab of ids is closed
InitTabsOf(ids) == storage = NoItem /\ ClosedTabs(ids)

\* One browsing context: the application in a single tab, the user typing
\* URLs and shortcodes (validity left empty) and following short links.
Init == InitTabsOf({1})

ShortTimes == {1000}

Next ==
  \/ \E t \in Tabs : OpenMain(t)
  \/ \E t \in Tabs, code \in VisitCodes : OpenShort(t, code)
  \/ \E t \in Tabs, idx \in 1..NumInputs, value \in {"", GoodUrl} :
       handleInputChange(t, idx, "url", value)
  \/ \E t \in Tabs, idx \in 1..NumInputs, value \in {EmptyText, CodeA} :
       handleInputChange(t, idx, "shortcode", value)
  \/ \E t \in Tabs, now \in ShortTimes :
       \E draws \in drawsFor(t, RandomDraws) :
         handleShorten(t, now, draws)
  \/ \E t \in Tabs : \E id \in timers[t] : TimerFire(t, id)
  \/ \E t \in Tabs : CloseTab(t)

Spec == Init /\ [][Next]_vars

\* Two tabs sharing the store, each user filling the URL of the first row
\* only and Math.random() returning long fractions.
TwoTabs == {1, 2}

InitTabs == InitTabsOf(TwoTabs)

TabDraws ==
  { <<"a", "a", "a", "a", "a", "a", "a", "a">>,
    <<"b", "b", "b", "b", "b", "b", "b", "b">> }

TabVisitCodes == {CodeA, <<"x", "x", "x">>}

NextTabs ==
  \/ \E t \in Tabs : OpenMain(t)
  \/ \E t \in Tabs, code \in TabVisitCodes : OpenShort(t, code)
  \/ \E t \in Tabs, value \in {"", GoodUrl} :
       handleInputChange(t, 1, "url", value)
  \/ \E t \in Tabs, now \in ShortTimes :
       \E draws \in drawsFor(t, TabDraws) :
         handleShorten(t, now, draws)
  \/ \E t \in Tabs : OnStorage(t)
  \/ \E t \in Tabs : \E id \in timers[t] : TimerFire(t, id)
  \/ \E t \in Tabs : CloseTab(t)

SpecTabs == InitTabs /\ [][NextTabs]_vars

\* The submission view with a form already filled in: the page was loaded
\* on one of a few stores and the user typed any values; then Shorten URLs.
entryOf(url, code, now, validity, clicks) ==
  [ originalUrl |-> url,
    shortcode |-> code,
    shortUrl |-> Origin \o <<"/">> \o code,
    createdAt |-> now,
    expiresAt |-> now + validity * MsPerMinute,
    clicks |-> clicks ]

StoreSamples ==
  { NoItem,
    ArrayItem(<<entryOf(GoodUrl, CodeA, 1000, DEFAULT_VALIDITY, 0)>>),
    ArrayItem(<<entryOf(GoodUrl, CodeB, 1000, 2, 1)>>) }

InputRows ==
  [url : UrlValues, validity : ValidityValues, shortcode : ShortcodeValues]

InitForm ==
  /\ storage \in StoreSamples
  /\ view = [t \in {1} |-> "main"]
  /\ listKind = [t \in {1} |-> getStoredKind]
  /\ appUrls = [t \in {1} |-> getStoredUrls]
  /\ mainUrls = [t \in {1} |-> getStoredUrls]
  /\ inputs \in [{1} -> [1..NumInputs -> InputRows]]
  /\ errors = [t \in {1} |-> {}]
  /\ successMessage = [t \in {1} |-> 0]
  /\ shortcode = [t \in {1} |-> EmptyText]
  /\ href = [t \in {1} |-> NoHref]
  /\ timers = [t \in {1} |-> {}]
  /\ timerSeq = [t \in {1} |-> 0]
  /\ navCount = [t \in {1} |-> 0]
  /\ events = [t \in {1} |-> 0]

NextForm ==
  \E t \in Tabs, now \in Times :
    \E draws \in drawsFor(t, RandomDraws) :
      handleShorten(t, now, draws)

SpecForm == InitForm /\ [][NextForm]_vars

\* One tab on a store that holds any kind of item when the page is loaded:
\* nothing, an array of entries, or text that something else put there.
ItemSamples ==
  { NoItem, ForeignItem("unparseable"),
    ArrayItem(<<entryOf(GoodUrl, CodeA, 1000, DEFAULT_VALIDITY, 0)>>) }
    \cup { ForeignItem(tag) : tag \in FalsyTags \cup TruthyTags }

InitLoad == storage \in ItemSamples /\ ClosedTabs({1})

NextLoad ==
  \/ \E t \in Tabs : OpenMain(t)
  \/ \E t \in Tabs, code \in TabVisitCodes : OpenShort(t, code)
  \/ \E t \in Tabs, value \in {"", GoodUrl} :
       handleInputChange(t, 1, "url", value)
  \/ \E t \in Tabs, value \in {EmptyText, CodeA} :
       handleInputChange(t, 1, "shortcode", value)
  \/ \E t \in Tabs, now \in ShortTimes :
       \E draws \in drawsFor(t, TabDraws) :
         handleShorten(t, now, draws)
  \/ \E t \in Tabs : \E id \in timers[t] : TimerFire(t, id)
  \/ \E t \in Tabs : CloseTab(t)

SpecLoad == InitLoad /\ [][NextLoad]_vars

\* One tab, the loop of generateShortCode made visible.  Math.random() is
\* fair: a value that ends the loop, if there is one, is drawn at last.
NextGen ==
  \/ \E t \in Tabs : OpenMain(t)
  \/ \E t \in Tabs, idx \in 1..NumInputs, value \in {"", GoodUrl} :
       handleInputChange(t, idx, "url", value)
  \/ \E t \in Tabs, idx \in 1..NumInputs, value \in {EmptyText, CodeA} :
       handleInputChange(t, idx, "shortcode", value)
  \/ \E t \in Tabs, now \in ShortTimes :
       /\ ~validationPassed(validateInputs(t)) \/ generatedRows(t) = {}
       /\ \E draws \in drawsFor(t, RandomDraws) :
            handleShorten(t, now, draws)
  \/ \E t \in Tabs : handleShortenBegin(t)
  \/ \E t \in Tabs, now \in ShortTimes :
       \E draws \in drawsFor(t, RandomDraws) :
         handleShortenEnd(t, now, draws)
  \/ \E t \in Tabs : CloseTab(t)

FairDraws ==
  WF_vars(\E now \in ShortTimes :
            \E draws \in drawsFor(1, RandomDraws) :
              handleShortenEnd(1, now, draws))

SpecGen == Init /\ [][NextGen]_vars /\ FairDraws

----------------------------------------------------------------------------
(* Claims *)

sameEntry(a, b) ==
  /\ a.shortcode = b.shortcode
  /\ a.originalUrl = b.originalUrl
  /\ a.shortUrl = b.shortUrl
  /\ a.createdAt = b.createdAt
  /\ a.expiresAt = b.expiresAt

\* tab t's handleShorten wrote a batch in this step
submitted(t) ==
  /\ view[t] = "main"
  /\ view'[t] = "main"
  /\ successMessage'[t] > 0
  /\ mainUrls'[t] # mainUrls[t]

\* tab t's redirect effect ran in this step and found its code
resolved(t) == view[t] # "external" /\ view'[t] = "external"

\* tab t's redirect effect ran in this step and did not find its code
missed(t) ==
  /\ view'[t] = "redirect"
  /\ timerSeq'[t] = (IF view[t] = "redirect" THEN timerSeq[t] ELSE 0) + 1

\* C1: no two entries of the store share a shortcode, whether they were
\* created in one batch (typed or generated codes) or in different batches.
C1_UniqueShortcodes ==
  \A i, j \in 1..Len(getStoredUrls) :
    i # j => getStoredUrls[i].shortcode # getStoredUrls[j].shortcode

\* C2: the clicks persisted for an entry never decrease, whatever redirect
\* views in their own tabs and an earlier mounted submission view do.
C2_ClicksNeverDecrease ==
  [][\A i \in 1..Len(getStoredUrls) :
       (i <= Len(getStoredUrls') /\ sameEntry(getStoredUrls[i], getStoredUrls'[i]))
         => getStoredUrls'[i].clicks >= getStoredUrls[i].clicks]_vars

\* C3: when the Validator reports an error for the batch, handleShorten
\* creates nothing and writes nothing: store, in-memory list and form inputs
\* stay as they were, and the errors reported are the Validator's.
C3_RejectedBatchWritesNothing ==
  [][\A t \in Tabs :
       (view[t] = "main" /\ validateInputs(t) # {})
         => /\ storage' = storage
            /\ mainUrls'[t] = mainUrls[t]
            /\ inputs'[t] = inputs[t]
            /\ successMessage'[t] = 0
            /\ errors'[t] = validateInputs(t)]_vars

\* C3's case: a batch of two rows with the same typed shortcode was rejected,
\* both rows are reported and the store still holds its one entry.
C3_Witness ==
  /\ errors[1] = { Err("shortcode", 1, ErrTaken), Err("shortcode", 2, ErrTaken) }
  /\ inputs[1][1].shortcode = inputs[1][2].shortcode
  /\ Len(getStoredUrls) = 1
  /\ mainUrls[1] = getStoredUrls

\* C4: a resolution of a stored code reports that entry's originalUrl and
\* raises that entry's persisted clicks by exactly 1; its other fields and
\* every other entry of the store stay as they were.
C4_ResolveCountsOneClick ==
  [][\A t \in Tabs :
       resolved(t) =>
         /\ hasShortcode(getStoredUrls, shortcode'[t])
         /\ Len(getStoredUrls') = Len(getStoredUrls)
         /\ \E i \in 1..Len(getStoredUrls) :
              /\ getStoredUrls[i].shortcode = shortcode'[t]
              /\ href'[t] = getStoredUrls[i].originalUrl
              /\ getStoredUrls'[i] = [getStoredUrls[i] EXCEPT !.clicks = @ + 1]
              /\ \A j \in 1..Len(getStoredUrls) :
                   j # i => getStoredUrls'[j] = getStoredUrls[j]]_vars

\* C5: a resolution of a code that no stored entry has is a miss: nothing is
\* written to the store and the tab does not leave for an external URL.
C5_MissLeavesStore ==
  [][\A t \in Tabs :
       ((resolved(t) \/ missed(t))
          /\ ~hasShortcode(getStoredUrls, shortcode'[t]))
         => /\ missed(t)
            /\ storage' = storage
            /\ href'[t] = NoHref]_vars

\* C5's case: a tab shows the not-found notice for a code the non-empty store
\* does not hold.
C5_Witness ==
  \E t \in Tabs :
    /\ view[t] = "redirect"
    /\ timers[t] # {}
    /\ href[t] = NoHref
    /\ Len(getStoredUrls) > 0
    /\ ~hasShortcode(getStoredUrls, shortcode[t])

\* C6: in the only writing tab, a successful handleShorten keeps every stored
\* entry at its position with originalUrl, shortcode, shortUrl, createdAt and
\* expiresAt unchanged, and appends the new entries after them.
C6_AppendOnly ==
  [][\A t \in Tabs :
       submitted(t) =>
         /\ Len(getStoredUrls') = Len(getStoredUrls) + successMessage'[t]
         /\ \A i \in 1..Len(getStoredUrls) :
              sameEntry(getStoredUrls'[i], getStoredUrls[i])]_vars

\* C6's case: a batch of one entry was appended to a store that held one.
C6_Witness ==
  /\ view[1] = "main"
  /\ successMessage[1] = 1
  /\ Len(getStoredUrls) = 2

\* C7: every code the generator returned for a batch differs from every
\* shortcode stored before the batch and from every shortcode typed in the
\* form of that batch.
C7_GeneratedCodeIsFresh ==
  [][\A t \in Tabs :
       submitted(t) =>
         LET rows == filledRows(t, 1)
             base == Len(mainUrls[t])
         IN  \A k \in 1..Len(rows) :
               inputs[t][rows[k]].shortcode = EmptyText =>
                 /\ base + k <= Len(getStoredUrls')
                 /\ ~hasShortcode(getStoredUrls,
                                  getStoredUrls'[base + k].shortcode)
                 /\ \A idx \in 1..NumInputs :
                      inputs[t][idx].shortcode
                        # getStoredUrls'[base + k].shortcode]_vars

\* C8: once a tab has handled the change notification, the lists its views
\* read equal the store: the list the redirect view resolves against and the
\* list the submission view checks uniqueness with and extends.
C8_NotificationReloadsLists ==
  [][\A t \in Tabs :
       (Loaded(t) /\ events'[t] < events[t] /\ view'[t] = view[t])
         => /\ appUrls'[t] = getStoredUrls'
            /\ (view'[t] = "main" => mainUrls'[t] = getStoredUrls')]_vars

\* C9: nothing locks the store: a successful handleShorten writes the tab's
\* own in-memory list plus the new entries over whatever the store holds,
\* reports success and raises no error in any tab.
C9_WriteOverwritesStore ==
  [][\A t \in Tabs :
       submitted(t) =>
         /\ getStoredUrls' = mainUrls'[t]
         /\ Len(mainUrls'[t]) = Len(mainUrls[t]) + successMessage'[t]
         /\ SubSeq(mainUrls'[t], 1, Len(mainUrls[t])) = mainUrls[t]
         /\ \A u \in Tabs : errors'[u] = IF u = t THEN {} ELSE errors[u]]_vars

\* C9's case, the lost update: a tab reports the entries it created last as
\* shortened, one of them is absent from the store, and no tab shows an error.
C9_LostUpdate ==
  /\ \A u \in Tabs : errors[u] = {}
  /\ \E t \in Tabs :
       /\ view[t] = "main"
       /\ successMessage[t] > 0
       /\ \E j \in (Len(mainUrls[t]) - successMessage[t] + 1)..Len(mainUrls[t]) :
            ~hasShortcode(getStoredUrls, mainUrls[t][j].shortcode)

\* C10: a not-found timer pending when its redirect view is torn down
\* (unmounted, or its effect run again) is cancelled: a timer that fires a
\* navigation to the submission view is the one the mounted effect set last.
C10_TornDownTimerCancelled ==
  [][\A t \in Tabs : \A id \in timers[t] :
       (Loaded(t) /\ id \notin timers'[t] /\ navCount'[t] = navCount[t] + 1)
         => (view[t] = "redirect" /\ id = timerSeq[t])]_vars

\* C11: whatever item the store holds (none, unparseable text, or parseable
\* data that is no array: an object, a number, a string), what a page got
\* from getStoredUrls is an array, empty unless the item is an array, and no
\* caller fails on it.
C11_LoadReturnsList ==
  \A t \in Tabs :
    view[t] # "closed" =>
      /\ listKind[t] = "array"
      /\ view[t] # "crashed"
      /\ (storage.tag # "array" => appUrls[t] = <<>> /\ mainUrls[t] = <<>>)

\* C12: for a row with a non-empty URL and a well-formed shortcode, the
\* Validator reports "taken" exactly when the code is the shortcode of an
\* entry of the tab's list or of another row of the form, whatever that
\* row's index; two rows with the same code are both reported.
C12_TakenExactlyWhenDuplicate ==
  [][\A t \in Tabs : \A idx \in 1..NumInputs :
       LET code == inputs[t][idx].shortcode IN
       (view[t] = "main" /\ inputs[t][idx].url # "" /\ isValidShortcode(code))
         => ((Err("shortcode", idx, ErrTaken) \in errors'[t])
               <=> \/ \E i \in 1..Len(mainUrls[t]) :
                        mainUrls[t][i].shortcode = code
                   \/ \E j \in (1..NumInputs) \ {idx} :
                        inputs[t][j].shortcode = code)]_vars

\* C12's case: a row was reported for a code that a stored entry has and no
\* other row has, and the other row, with its own URL, was not reported.
C12_Witness ==
  /\ errors[1] = { Err("shortcode", 1, ErrTaken) }
  /\ inputs[1][1].url # "" /\ inputs[1][2].url # ""
  /\ hasShortcode(mainUrls[1], inputs[1][1].shortcode)
  /\ inputs[1][2].shortcode # inputs[1][1].shortcode

\* C13: every shortcode a batch stores is well-formed: a typed one matches
\* /^[a-zA-Z0-9]{3,10}$/, a generated one has exactly 6 characters, each a
\* digit or a lower-case letter; none is empty or shorter than 3.
C13_StoredCodesWellFormed ==
  [][\A t \in Tabs :
       submitted(t) =>
         LET rows == filledRows(t, 1)
             base == Len(mainUrls[t])
         IN  \A k \in 1..Len(rows) :
               /\ base + k <= Len(getStoredUrls')
               /\ LET code == getStoredUrls'[base + k].shortcode IN
                  /\ Len(code) >= MinCodeLen
                  /\ IF inputs[t][rows[k]].shortcode # EmptyText
                     THEN isValidShortcode(code)
                     ELSE /\ Len(code) = CodeTo - CodeFrom
                          /\ \A i \in 1..Len(code) :
                               code[i] \in Digits \cup Lower]_vars

\* C14: every entry a batch creates has clicks 0, the createdAt of the other
\* entries of the batch, and expiresAt = createdAt + its validity in
\* minutes, the positive integer typed in the row or DEFAULT_VALIDITY when
\* the field is empty; so expiresAt is later than createdAt.
C14_EntryTimes ==
  [][\A t \in Tabs :
       submitted(t) =>
         LET rows == filledRows(t, 1)
             base == Len(mainUrls[t])
         IN  \A k \in 1..Len(rows) :
               /\ base + k <= Len(mainUrls'[t])
               /\ LET entry == mainUrls'[t][base + k]
                      typed == inputs[t][rows[k]].validity
                      minutes == IF typed = EmptyText THEN DEFAULT_VALIDITY
                                 ELSE decimalValue(typed)
                  IN  /\ entry.clicks = 0
                      /\ entry.createdAt = mainUrls'[t][base + 1].createdAt
                      /\ minutes > 0
                      /\ entry.expiresAt
                           = entry.createdAt + minutes * MsPerMinute
                      /\ entry.expiresAt > entry.createdAt]_vars

\* C14's case: a batch of two entries was stored, the first with the default
\* validity and the second with the 2 minutes typed in its row.
C14_Witness ==
  /\ view[1] = "main"
  /\ successMessage[1] = 2
  /\ Len(getStoredUrls) = 2
  /\ getStoredUrls[1].createdAt = getStoredUrls[2].createdAt
  /\ getStoredUrls[1].expiresAt
       = getStoredUrls[1].createdAt + DEFAULT_VALIDITY * MsPerMinute
  /\ getStoredUrls[2].expiresAt
       = getStoredUrls[2].createdAt + 2 * MsPerMinute

\* C15: a row whose URL is empty is skipped whatever its validity and
\* shortcode fields hold: no error is keyed to it and no entry is made from
\* it; a stored batch has as many entries as the form has rows with a URL.
C15_EmptyUrlRowSkipped ==
  [][\A t \in Tabs :
       view[t] = "main" =>
         LET withUrl == { idx \in 1..NumInputs : inputs[t][idx].url # "" }
         IN  /\ \A e \in errors'[t] : e.idx \in withUrl
             /\ submitted(t) =>
                  /\ successMessage'[t] = Cardinality(withUrl)
                  /\ Len(getStoredUrls')
                       = Len(getStoredUrls) + Cardinality(withUrl)
                  /\ \A i \in (Len(getStoredUrls) + 1)..Len(getStoredUrls') :
                       getStoredUrls'[i].originalUrl # ""
             /\ (withUrl = {} => getStoredUrls' = getStoredUrls)]_vars

\* C15's case: a batch was rejected for the URL of its first row alone, while
\* the second row, without a URL, holds a validity and a shortcode that
\* would both be errors.
C15_Witness ==
  /\ errors[1] = { Err("url", 1, ErrUrl) }
  /\ inputs[1][2].url = ""
  /\ inputs[1][2].validity = <<"x">>
  /\ inputs[1][2].shortcode = ShortCodeAb

\* C16: a visit of a code that is not stored makes exactly one navigation
\* to the submission view, when its 3-second timer elapses, also when
\* 'storage' events of other tabs arrive while the timer is pending: a page
\* never calls navigate('/') a second time.
C16_OneNavigationPerVisit == \A t \in Tabs : navCount[t] <= 1

\* a code the generator can draw is used neither by a stored entry nor by a
\* shortcode field of tab t's form
freeCode(t) ==
  \E draw \in RandomDraws :
    /\ ~hasShortcode(getStoredUrls, candidateCode(draw))
    /\ \A idx \in 1..NumInputs :
         inputs[t][idx].shortcode # candidateCode(draw)

\* C17: the loop of generateShortCode has no retry cap and no other way
\* out: with fair draws a handleShorten that entered it returns at last
\* whenever some code it can draw is used neither by a stored entry nor by
\* a shortcode field of the form, and while there is no such code it never
\* returns and reports nothing (only closing the tab ends it).
C17_ReturnsIffFreeCode ==
  /\ (view[1] = "generating" /\ freeCode(1)) ~> (view[1] # "generating")
  /\ [][\A t \in Tabs :
          (view[t] = "generating" /\ ~freeCode(t))
            => /\ view'[t] \in {"generating", "closed"}
               /\ (view'[t] = "generating" =>
                     errors'[t] = errors[t] /\ storage' = storage)]_vars

\* C17's case: handleShorten is in the loop and every code the generator
\* can draw is taken by the two stored entries and the form.
C17_Witness ==
  /\ view[1] = "generating"
  /\ ~freeCode(1)
  /\ Len(getStoredUrls) = MaxStore

\* C18: in a tab that is the only writer, after every handleShorten (batch
\* stored, batch rejected, or no row with a URL) MainApp's list equals the
\* store, and a handleShorten on a form without any URL writes nothing.
C18_ListEqualsStore ==
  [][\A t \in Tabs :
       (view[t] = "main" /\ view'[t] = "main")
         => /\ mainUrls'[t] = getStoredUrls'
            /\ (\A idx \in 1..NumInputs : inputs[t][idx].url = "")
                 => /\ storage' = storage
                    /\ events' = events
                    /\ mainUrls'[t] = mainUrls[t]]_vars

\* C18's case: after one batch was stored and the next was rejected, the
\* list of the submission view is the stored list.
C18_Witness ==
  /\ view[1] = "main"
  /\ errors[1] # {}
  /\ Len(getStoredUrls) > 0
  /\ mainUrls[1] = getStoredUrls

====
